---- MODULE Spec2Model ----
(***************************************************************************)
(* Model of app.py: the timestamp conversion (timestamp_to_ms, Word.begin_ms*)
(* and Word.end_ms) and the SessionWidget state machine (current index,     *)
(* responses, the media player, stop_ms, the polling QTimer and finish()).  *)
(*                                                                         *)
(* A timestamp string is a sequence of one-character strings, so parsing   *)
(* is done the way the code does it: split on ":" and ",", then int().      *)
(* responses[] holds Python's None / True / False as "None", "True",        *)
(* "False".  current is 0-based as in the code; TLA+ sequences are 1-based, *)
(* so the current word is words[current + 1].                               *)
(***************************************************************************)
EXTENDS Integers, Sequences, FiniteSets, TLC

\* ------------------------------------------------------------------ bounds
\* Longest word list loaded into a session.
MaxWords == 3
\* Length of the video, in seconds.
DurationSec == 5
\* Cap on the number of completed exports that are followed.
MaxExports == 2

DurationMs == DurationSec * 1000

\* --------------------------------------------------------------- utilities
Max(a, b) == IF a >= b THEN a ELSE b
Min(a, b) == IF a <= b THEN a ELSE b

\* ------------------------------------------------- timestamp conversion
Digits == <<"0", "1", "2", "3", "4", "5", "6", "7", "8", "9">>

DigitVal(c) == (CHOOSE d \in 1..10 : Digits[d] = c) - 1

IsDigit(c) == \E d \in 1..10 : Digits[d] = c

\* Python's int(s) on a string of decimal digits.
RECURSIVE int(_)
int(s) ==
    IF Len(s) = 0 THEN 0
    ELSE int(SubSeq(s, 1, Len(s) - 1)) * 10 + DigitVal(s[Len(s)])

\* Python's s.split(sep) for a one-character separator: the list of the
\* pieces between the occurrences of sep.
RECURSIVE split(_, _)
split(s, sep) ==
    IF \A i \in 1..Len(s) : s[i] # sep THEN <<s>>
    ELSE LET i == CHOOSE k \in 1..Len(s) :
                     s[k] = sep /\ \A j \in 1..(k - 1) : s[j] # sep
         IN  <<SubSeq(s, 1, i - 1)>> \o split(SubSeq(s, i + 1, Len(s)), sep)

\* int(s) raises ValueError unless s is a non-empty string of digits.
IsInt(s) == Len(s) > 0 /\ \A i \in 1..Len(s) : IsDigit(s[i])

\* timestamp_to_ms(ts) returns a value (does not raise ValueError) exactly
\* when both unpackings get the right number of pieces and every piece
\* converts.
timestamp_ok(ts) ==
    LET p == split(ts, ":") IN
    /\ Len(p) = 3
    /\ LET q == split(p[3], ",") IN
       /\ Len(q) = 2
       /\ IsInt(p[1]) /\ IsInt(p[2]) /\ IsInt(q[1]) /\ IsInt(q[2])

timestamp_to_ms(ts) ==
    LET p    == split(ts, ":")
        h    == p[1]
        m    == p[2]
        rest == p[3]
        q    == split(rest, ",")
        s    == q[1]
        ms   == q[2]
    IN  (int(h) * 3600 + int(m) * 60 + int(s)) * 1000 + int(ms)

\* str(n) for n >= 0: the decimal digits of n.
RECURSIVE str(_)
str(n) ==
    IF n < 10 THEN <<Digits[n + 1]>>
    ELSE str(n \div 10) \o <<Digits[(n % 10) + 1]>>

\* The format specs :02d and :03d: the digits of n, zero-padded on the left
\* to at least width characters, never cut.
RECURSIVE zero_pad(_, _)
zero_pad(d, width) ==
    IF Len(d) >= width THEN d ELSE zero_pad(<<"0">> \o d, width)

format_d(n, width) == zero_pad(str(n), width)

\* ms_to_timestamp as it would be with the fields written unpadded.
ms_to_timestamp_unpadded(ms0) ==
    LET s1 == ms0 \div 1000
        ms == ms0 % 1000
        m1 == s1 \div 60
        s  == s1 % 60
        h  == m1 \div 60
        m  == m1 % 60
    IN  str(h) \o <<":">> \o str(m) \o <<":">> \o str(s) \o <<",">> \o str(ms)

\* ms_to_timestamp as it would be with the hours wrapped like a clock's.
ms_to_timestamp_clock(ms0) ==
    LET s1 == ms0 \div 1000
        ms == ms0 % 1000
        m1 == s1 \div 60
        s  == s1 % 60
        h  == (m1 \div 60) % 24
        m  == m1 % 60
    IN  format_d(h, 2) \o <<":">> \o format_d(m, 2) \o <<":">>
        \o format_d(s, 2) \o <<",">> \o format_d(ms, 3)

\* ms_to_timestamp(ms): three divmods, then the f-string.
ms_to_timestamp(ms0) ==
    LET s1 == ms0 \div 1000
        ms == ms0 % 1000
        m1 == s1 \div 60
        s  == s1 % 60
        h  == m1 \div 60
        m  == m1 % 60
    IN  format_d(h, 2) \o <<":">> \o format_d(m, 2) \o <<":">>
        \o format_d(s, 2) \o <<",">> \o format_d(ms, 3)

begin_ms(w) == timestamp_to_ms(w.beginTimestamp) - 1000

end_ms(w) == timestamp_to_ms(w.endTimestamp) + 1000

\* ------------------------------------------------------------------ inputs
\* The word records a loaded JSON file may hold.  "cat" is the record of the
\* one-word scenario; "dog" begins less than a second into the video; "owl"
\* has its end before its begin; "cat" ends so late that its padded stop
\* lies past the end of the video.
Word(term, b, e) ==
    [term |-> term, beginTimestamp |-> b, endTimestamp |-> e,
     englishMeaning |-> "en", turkishMeaning |-> "tr",
     sampleSentenceInEnglish |-> "s-en", sampleSentenceInTurkish |-> "s-tr"]

WordPool ==
    << Word("cat", <<"0","0",":","0","0",":","0","5",",","0","0","0">>,
                   <<"0","0",":","0","0",":","0","6",",","0","0","0">>),
       Word("dog", <<"0","0",":","0","0",":","0","0",",","5","0","0">>,
                   <<"0","0",":","0","0",":","0","2",",","0","0","0">>),
       Word("owl", <<"0","0",":","0","0",":","0","3",",","0","0","0">>,
                   <<"0","0",":","0","0",":","0","1",",","0","0","0">>),
       Word("fox", <<"0","0",":","0","0",":","0","2",",","0","0","0">>,
                   <<"0","0",":","0","0",":","0","3",",","0","0","0">>) >>

\* The list of the n pool words that starts at pool entry k.
WordList(k, n) == [i \in 1..n |-> WordPool[k + i - 1]]

\* ------------------------------------------------------------------- state
VARIABLES
    words,          \* SessionWidget.words, fixed at construction
    current,        \* SessionWidget.current, 0-based
    responses,      \* SessionWidget.responses
    position,       \* QMediaPlayer position, ms
    playbackState,  \* QMediaPlayer state: "Stopped", "Playing", "Paused"
    stop_ms,        \* SessionWidget.stop_ms
    timer,          \* number of running cycles of SessionWidget.timer
    phase,          \* "Upload" (the upload window, no session yet),
                    \* "Browsing", "MessageBox" (finish() waits in the modal
                    \* dialog), "Closed" (self.close() has run), "NoWindow"
                    \* (upload window hidden and no session window shown)
    outFile,        \* the file <json_path>_filtered.json: {} while there is
                    \* none, {list} once a list of records has been written
    exports,        \* number of completed writes of outFile
    lastError,      \* the error surfaced since the last successful start:
                    \* the exception that left a slot or the title of the
                    \* error box shown, "none" if none
    conv,           \* a call chain of the two module-level conversion
                    \* functions: its input and the results so far
    pollLog         \* the polls of the polling cycle started last:
                    \* seen = what the last poll read ("none" before the
                    \* first poll, "below" for position < stop_ms, else
                    \* "reached"), pauses = number of player.pause() calls
                    \* the polls have made

vars == <<words, current, responses, position, playbackState, stop_ms, timer,
          phase, outFile, exports, lastError, conv, pollLog>>

session == <<words, current, responses, position, playbackState, stop_ms,
             timer, phase, outFile, exports, lastError, pollLog>>

player == <<position, playbackState>>

N == Len(words)

Finished == phase \in {"MessageBox", "Closed"}

\* No conversion call chain under way.
NoConv == [stage |-> "idle"]

\* ------------------------------------------------------------ media player
\* Starting a timer as it would be if each clip got a timer of its own and
\* the old one were left running.
timer_start_another(t) == t + 1

\* QTimer.start(100) on the one timer object: a running timer is stopped and
\* restarted, so one cycle runs afterwards whatever ran before.
timer_start(t) == 1

NoPoll == [seen |-> "none", pauses |-> 0]

\* What a poll reads: the player's position against the stored threshold.
Observed == IF position >= stop_ms THEN "reached" ELSE "below"

\* play_segment as it would be without the max(0, ...) around the start.
play_segment_unclamped(w) ==
    /\ position' = begin_ms(w)
    /\ playbackState' = "Playing"
    /\ stop_ms' = end_ms(w)
    /\ timer' = timer_start(timer)
    /\ pollLog' = NoPoll

\* play_segment as it would be without the timer.start(100).
play_segment_no_restart(w) ==
    /\ position' = Max(0, begin_ms(w))
    /\ playbackState' = "Playing"
    /\ stop_ms' = end_ms(w)
    /\ timer' = timer
    /\ pollLog' = NoPoll

\* play_segment(w): setSource stops the player, setPosition seeks, play()
\* starts playback, stop_ms is stored and the timer is (re)started.
play_segment(w) ==
    /\ position' = Max(0, begin_ms(w))
    /\ playbackState' = "Playing"
    /\ stop_ms' = end_ms(w)
    /\ timer' = timer_start(timer)
    /\ pollLog' = NoPoll

\* update_ui(): the labels are display only; the state change is
\* play_segment of the word at the (new) current index.
update_ui(cur) == play_segment(words[cur + 1])

\* --------------------------------------------------------------------- Init
Init ==
    /\ \E n \in 1..MaxWords, k \in 1..Len(WordPool) :
           /\ k + n - 1 <= Len(WordPool)
           /\ words = WordList(k, n)
    /\ current = 0
    /\ responses = [i \in 1..Len(words) |-> "None"]
    /\ position = Max(0, begin_ms(words[1]))
    /\ playbackState = "Playing"
    /\ stop_ms = end_ms(words[1])
    /\ timer = 1
    /\ phase = "Browsing"
    /\ outFile = {}
    /\ exports = 0
    /\ lastError = "none"
    /\ conv = NoConv
    /\ pollLog = NoPoll

\* ----------------------------------------------------------------- handlers
\* A button's slot runs when there is a session, the control thread is in
\* the event loop and the widget takes input: not while finish() waits in
\* the modal message box.  After close() the object and its slots are still
\* there and nothing in the slots tests for it.
CanInvoke == phase \in {"Browsing", "Closed"}

\* The assignment as it would be if only an unset response were written.
mark_first_wins(rs, cur, v) ==
    IF rs[cur + 1] = "None" THEN [rs EXCEPT ![cur + 1] = v] ELSE rs

\* self.responses[self.current] = v
mark(rs, cur, v) == [rs EXCEPT ![cur + 1] = v]

mark_known ==
    /\ CanInvoke
    /\ responses' = mark(responses, current, "True")
    /\ UNCHANGED <<words, current, position, playbackState, stop_ms, timer,
                   phase, outFile, exports, lastError, pollLog>>
    /\ UNCHANGED conv

mark_unknown ==
    /\ CanInvoke
    /\ responses' = mark(responses, current, "False")
    /\ UNCHANGED <<words, current, position, playbackState, stop_ms, timer,
                   phase, outFile, exports, lastError, pollLog>>
    /\ UNCHANGED conv

\* prev_word as it would be if entering a word cleared its response.
prev_word_forgets ==
    /\ CanInvoke
    /\ IF current > 0
       THEN /\ current' = current - 1
            /\ update_ui(current')
            /\ responses' = [responses EXCEPT ![current' + 1] = "None"]
       ELSE UNCHANGED <<current, responses, position, playbackState, stop_ms,
                        timer, pollLog>>
    /\ UNCHANGED <<words, phase, outFile, exports, lastError>>
    /\ UNCHANGED conv

\* prev_word as it would be with update_ui() outside the if.
prev_word_replays ==
    /\ CanInvoke
    /\ IF current > 0
       THEN current' = current - 1
       ELSE current' = current
    /\ update_ui(current')
    /\ UNCHANGED <<words, responses, phase, outFile, exports, lastError>>
    /\ UNCHANGED conv

prev_word ==
    /\ CanInvoke
    /\ IF current > 0
       THEN /\ current' = current - 1
            /\ update_ui(current')
       ELSE UNCHANGED <<current, position, playbackState, stop_ms, timer,
                        pollLog>>
    /\ UNCHANGED <<words, responses, phase, outFile, exports, lastError>>
    /\ UNCHANGED conv

\* The test as it would be if only an explicit False kept a word.
FalsyOnlyFalse(r) == r = "False"

\* `not self.responses[idx]`: None and False are falsy.
Falsy(r) == r \in {"None", "False"}

\* The list comprehension of finish(): the words whose response is falsy, in
\* list order.
RECURSIVE filtered(_, _, _)
filtered(ws, rs, idx) ==
    IF idx > Len(ws) THEN << >>
    ELSE (IF Falsy(rs[idx]) THEN <<ws[idx]>> ELSE << >>)
         \o filtered(ws, rs, idx + 1)

\* finish as it would be if the session were closed whether or not the
\* write worked (close() in a finally).
finish_closes_on_error(ok) ==
    IF ok
    THEN /\ exports < MaxExports
         /\ outFile' = {filtered(words, responses, 1)}
         /\ exports' = exports + 1
         /\ phase' = "MessageBox"
         /\ UNCHANGED lastError
    ELSE /\ lastError' = "OSError"
         /\ phase' = "Closed"
         /\ UNCHANGED <<outFile, exports>>

\* finish(): build the list, write the file, show the modal message box.
\* open()/json.dump may raise OSError: the exception leaves the slot and
\* nothing else of finish() runs.
finish(ok) ==
    IF ok
    THEN /\ exports < MaxExports
         /\ outFile' = {filtered(words, responses, 1)}
         /\ exports' = exports + 1
         /\ phase' = "MessageBox"
         /\ UNCHANGED lastError
    ELSE /\ lastError' = "OSError"
         /\ UNCHANGED <<outFile, exports, phase>>

\* next_word as it would be if it finished one word early.
next_word_early ==
    /\ CanInvoke
    /\ IF current >= N - 2
       THEN /\ \E ok \in BOOLEAN : finish(ok)
            /\ UNCHANGED <<current, position, playbackState, stop_ms, timer,
                           pollLog>>
       ELSE /\ current' = current + 1
            /\ update_ui(current')
            /\ UNCHANGED <<outFile, exports, phase, lastError>>
    /\ UNCHANGED <<words, responses>>
    /\ UNCHANGED conv

next_word ==
    /\ CanInvoke
    /\ IF current = N - 1
       THEN /\ \E ok \in BOOLEAN : finish(ok)
            /\ UNCHANGED <<current, position, playbackState, stop_ms, timer,
                           pollLog>>
       ELSE /\ IF current < N - 1
               THEN /\ current' = current + 1
                    /\ update_ui(current')
               ELSE UNCHANGED <<current, position, playbackState, stop_ms,
                                timer, pollLog>>
            /\ UNCHANGED <<outFile, exports, phase, lastError>>
    /\ UNCHANGED <<words, responses>>
    /\ UNCHANGED conv

\* The user dismisses the message box; finish() goes on to self.close().
close_session ==
    /\ phase = "MessageBox"
    /\ phase' = "Closed"
    /\ UNCHANGED <<words, current, responses, position, playbackState,
                   stop_ms, timer, outFile, exports, lastError, pollLog>>
    /\ UNCHANGED conv

\* check_position as it would be with > in place of >=.
check_position_strict ==
    /\ timer > 0
    /\ IF position > stop_ms
       THEN /\ playbackState' = "Paused"
            /\ timer' = 0
            /\ pollLog' = [seen |-> Observed, pauses |-> pollLog.pauses + 1]
       ELSE /\ pollLog' = [pollLog EXCEPT !.seen = Observed]
            /\ UNCHANGED <<playbackState, timer>>
    /\ UNCHANGED <<words, current, responses, position, stop_ms, phase,
                   outFile, exports, lastError>>
    /\ UNCHANGED conv

\* check_position as it would be without the timer.stop().
check_position_keeps_polling ==
    /\ timer > 0
    /\ IF position >= stop_ms
       THEN /\ playbackState' = "Paused"
            /\ pollLog' = [seen |-> Observed, pauses |-> 1]
            /\ UNCHANGED timer
       ELSE /\ pollLog' = [pollLog EXCEPT !.seen = Observed]
            /\ UNCHANGED <<playbackState, timer>>
    /\ UNCHANGED <<words, current, responses, position, stop_ms, phase,
                   outFile, exports, lastError>>
    /\ UNCHANGED conv

\* The timer's timeout slot.  It runs from the event loop, the nested loop
\* of the message box included.
check_position ==
    /\ timer > 0
    /\ IF position >= stop_ms
       THEN /\ playbackState' = "Paused"
            /\ timer' = 0
            /\ pollLog' = [seen |-> Observed, pauses |-> pollLog.pauses + 1]
       ELSE /\ pollLog' = [pollLog EXCEPT !.seen = Observed]
            /\ UNCHANGED <<playbackState, timer>>
    /\ UNCHANGED <<words, current, responses, position, stop_ms, phase,
                   outFile, exports, lastError>>
    /\ UNCHANGED conv

\* ------------------------------------------------------------- environment
\* The playback engine moves the position forward while playing, here a
\* second at a time.  Any number of these steps may lie between two polls,
\* so a poll may find the position well past stop_ms.
advance ==
    /\ playbackState = "Playing"
    /\ position < DurationMs
    /\ position' = Min(position + 1000, DurationMs)
    /\ UNCHANGED <<words, current, responses, playbackState, stop_ms, timer,
                   phase, outFile, exports, lastError, pollLog>>
    /\ UNCHANGED conv

\* Playback reaches the end of the video: the engine stops by itself.  Where
\* it leaves the position is the engine's business: at the end or back at 0.
end_of_media ==
    /\ playbackState = "Playing"
    /\ position >= DurationMs
    /\ playbackState' = "Stopped"
    /\ \E p \in {position, 0} : position' = p
    /\ UNCHANGED <<words, current, responses, stop_ms, timer, phase, outFile,
                   exports, lastError, pollLog>>
    /\ UNCHANGED conv

Next ==
    \/ mark_known
    \/ mark_unknown
    \/ prev_word
    \/ next_word
    \/ close_session
    \/ check_position
    \/ advance
    \/ end_of_media

Spec == Init /\ [][Next]_vars

\* The event loop keeps delivering the timeouts of a running timer and the
\* playback engine keeps playing: no fairness for what the user does.
SpecLive ==
    /\ Init
    /\ [][Next]_vars
    /\ WF_vars(check_position)
    /\ WF_vars(advance)
    /\ WF_vars(end_of_media)

\* ------------------------------------------------- conversion call chains
\* Strings of the shape HH:MM:SS,mmm handed to timestamp_to_ms: two digits
\* for hours, minutes and seconds, three for milliseconds.  Minutes and
\* seconds of 60 and more have the shape too.
TsInputs ==
    {hh \o <<":">> \o mm \o <<":">> \o ss \o <<",">> \o ms :
        hh \in {<<"0","0">>, <<"0","1">>, <<"9","9">>},
        mm \in {<<"0","0">>, <<"5","9">>, <<"6","0">>, <<"7","5">>},
        ss \in {<<"0","0">>, <<"0","5">>, <<"5","9">>, <<"6","1">>},
        ms \in {<<"0","0","0">>, <<"0","0","7">>, <<"9","9","9">>}}

\* Strings timestamp_to_ms cannot unpack or convert.
MalformedTs ==
    { <<"0","0",":","0","0",":","0","5",".","0","0","0">>,
      <<"0","0",":","0","5",",","0","0","0">>,
      <<"0","0",":","0","0",":","x","5",",","0","0","0">> }

\* Millisecond counts handed to ms_to_timestamp, up to and past 100 hours.
MsInputs ==
    {h * 3600000 + m * 60000 + sec * 1000 + ms :
        h \in {0, 1, 99, 100, 250}, m \in {0, 59}, sec \in {0, 59},
        ms \in {0, 7, 999}}

\* The state before any session exists.
NoSession ==
    /\ words = << >>
    /\ current = 0
    /\ responses = << >>
    /\ position = 0
    /\ playbackState = "Stopped"
    /\ stop_ms = 0
    /\ timer = 0
    /\ phase = "Upload"
    /\ outFile = {}
    /\ exports = 0
    /\ lastError = "none"
    /\ pollLog = NoPoll

InitConv ==
    /\ NoSession
    /\ \/ \E ts \in TsInputs \cup MalformedTs : conv = [stage |-> "ts", ts |-> ts]
       \/ \E ms \in MsInputs : conv = [stage |-> "ms", ms |-> ms]

\* A call of timestamp_to_ms: on the input string, or on the string
\* ms_to_timestamp returned.
apply_timestamp_to_ms ==
    /\ \/ /\ conv.stage = "ts"
          /\ IF timestamp_ok(conv.ts)
             THEN conv' = [stage |-> "ts_ms", ts |-> conv.ts,
                           ms |-> timestamp_to_ms(conv.ts)]
             ELSE conv' = [stage |-> "ValueError", ts |-> conv.ts]
       \/ /\ conv.stage = "ms_ts"
          /\ IF timestamp_ok(conv.ts)
             THEN conv' = [stage |-> "ms_ts_ms", ms |-> conv.ms,
                           ts |-> conv.ts, back |-> timestamp_to_ms(conv.ts)]
             ELSE conv' = [stage |-> "ValueError", ts |-> conv.ts]
    /\ UNCHANGED session

\* A call of ms_to_timestamp: on the input count, or on the count
\* timestamp_to_ms returned.
apply_ms_to_timestamp ==
    /\ \/ /\ conv.stage = "ms"
          /\ conv' = [stage |-> "ms_ts", ms |-> conv.ms,
                      ts |-> ms_to_timestamp(conv.ms)]
       \/ /\ conv.stage = "ts_ms"
          /\ conv' = [stage |-> "ts_ms_ts", ts |-> conv.ts, ms |-> conv.ms,
                      back |-> ms_to_timestamp(conv.ms)]
    /\ UNCHANGED session

NextConv ==
    \/ apply_timestamp_to_ms
    \/ apply_ms_to_timestamp

SpecConv == InitConv /\ [][NextConv]_vars

\* ------------------------------------------------------------ upload window
\* The keyword parameters Word(**d) requires.
WordFields ==
    {"term", "beginTimestamp", "endTimestamp", "englishMeaning",
     "turkishMeaning", "sampleSentenceInEnglish", "sampleSentenceInTurkish"}

\* A JSON object without the meanings and samples, and one with a key Word
\* does not take.
ShortRecord ==
    [term |-> "bat",
     beginTimestamp |-> <<"0","0",":","0","0",":","0","1",",","0","0","0">>,
     endTimestamp   |-> <<"0","0",":","0","0",":","0","2",",","0","0","0">>]

LongRecord ==
    [term |-> "bee",
     beginTimestamp |-> <<"0","0",":","0","0",":","0","1",",","0","0","0">>,
     endTimestamp   |-> <<"0","0",":","0","0",":","0","2",",","0","0","0">>,
     englishMeaning |-> "en", turkishMeaning |-> "tr",
     sampleSentenceInEnglish |-> "s-en", sampleSentenceInTurkish |-> "s-tr",
     note |-> "n"]

\* What the JSON path may lead to: no readable file, text that is not
\* JSON, JSON that is not an array of objects, or an array of objects.  The
\* arrays of complete word records have 0 to MaxWords entries.
Files ==
    {[kind |-> "missing"], [kind |-> "not_json"], [kind |-> "not_list"]}
    \cup {[kind |-> "json", data |-> WordList(kn[1], kn[2])] :
              kn \in {x \in (1..Len(WordPool)) \X (0..MaxWords) :
                          x[1] + x[2] - 1 <= Len(WordPool)}}
    \cup {[kind |-> "json", data |-> <<WordPool[1], ShortRecord>>],
          [kind |-> "json", data |-> <<LongRecord>>]}

\* The three line edits (filled or empty) and the file behind the JSON path.
StartInputs == [video : BOOLEAN, srt : BOOLEAN, json : BOOLEAN, file : Files]

\* open() + json.load() + [Word(**d) for d in data] run without raising.
load_ok(file) ==
    /\ file.kind = "json"
    /\ \A i \in 1..Len(file.data) : DOMAIN file.data[i] = WordFields

InitUpload ==
    /\ NoSession
    /\ conv = NoConv

\* SessionWidget(video, words, json_file) followed by show(): the fields
\* are set, update_ui() indexes words[0] and starts its clip.  With no word
\* the indexing raises IndexError out of __init__ and out of start().
new_session(ws) ==
    IF Len(ws) = 0
    THEN /\ phase' = "NoWindow"
         /\ lastError' = "IndexError"
         /\ UNCHANGED <<words, current, responses, position, playbackState,
                        stop_ms, timer, pollLog>>
    ELSE /\ words' = ws
         /\ current' = 0
         /\ responses' = [i \in 1..Len(ws) |-> "None"]
         /\ play_segment(ws[1])
         /\ phase' = "Browsing"
         /\ lastError' = "none"

\* start as it would be with self.hide() ahead of the try.
start_hides_first(inp) ==
    /\ phase = "Upload"
    /\ IF ~(inp.video /\ inp.srt /\ inp.json)
       THEN /\ lastError' = "Input"
            /\ UNCHANGED <<words, current, responses, position,
                           playbackState, stop_ms, timer, phase, pollLog>>
       ELSE IF ~load_ok(inp.file)
       THEN /\ lastError' = "JSON Error"
            /\ phase' = "NoWindow"
            /\ UNCHANGED <<words, current, responses, position,
                           playbackState, stop_ms, timer, pollLog>>
       ELSE new_session(inp.file.data)
    /\ UNCHANGED <<outFile, exports, conv>>

\* UploadWidget.start(): a warning box unless all three paths are filled; a
\* critical box if reading, parsing or building the words raises; otherwise
\* the upload window is hidden and the session is built and shown.
start(inp) ==
    /\ phase = "Upload"
    /\ IF ~(inp.video /\ inp.srt /\ inp.json)
       THEN /\ lastError' = "Input"
            /\ UNCHANGED <<words, current, responses, position,
                           playbackState, stop_ms, timer, phase, pollLog>>
       ELSE IF ~load_ok(inp.file)
       THEN /\ lastError' = "JSON Error"
            /\ UNCHANGED <<words, current, responses, position,
                           playbackState, stop_ms, timer, phase, pollLog>>
       ELSE new_session(inp.file.data)
    /\ UNCHANGED <<outFile, exports, conv>>

NextLoad ==
    \/ \E inp \in StartInputs : start(inp)
    \/ Next

SpecLoad == InitUpload /\ [][NextLoad]_vars

\* ================================================================== claims

\* The indexes of the words that are not marked known, and the k-th of them
\* in list order.
Kept(rs) == {i \in 1..Len(rs) : rs[i] # "True"}

KthKept(rs, k) ==
    CHOOSE i \in Kept(rs) : Cardinality({j \in Kept(rs) : j < i}) = k - 1

NotKnownSubsequence(ws, rs) ==
    [k \in 1..Cardinality(Kept(rs)) |-> ws[KthKept(rs, k)]]

\* C1: whenever an export completes, the list it writes is exactly the
\* subsequence of the loaded words, in original order, whose response at
\* that moment is not known (unknown and unset words are included, known
\* words are excluded).
C1_ExportIsNotKnownSubsequence ==
    [][exports' # exports =>
          outFile' = {NotKnownSubsequence(words, responses)}]_vars

\* C1 witness: three words, the middle one marked known, the export has
\* written the first and the third.
C1_Witness ==
    /\ N = 3
    /\ exports = 1
    /\ phase = "MessageBox"
    /\ responses = <<"None", "True", "None">>
    /\ outFile = {<<words[1], words[3]>>}

\* C2: once the session is Finished the export has run exactly once, however
\* often next() is invoked afterwards.
C2_ExportRunsOnce == Finished => exports = 1

\* C3: after the session has entered Finished, no handler changes the
\* current index or a response, and no clip playback or polling cycle is
\* started.
C3_FinishedIsTerminal ==
    [][Finished =>
          /\ current' = current
          /\ responses' = responses
          /\ ~(playbackState # "Playing" /\ playbackState' = "Playing")
          /\ ~(timer = 0 /\ timer' > 0)]_vars

\* C4: navigation never changes a response: a step that changes the current
\* index leaves the response array as it is, and a response entry changes
\* only at the current index, in a step that stays there (a mark).
C4_ResponsesSticky ==
    [][/\ current' # current => responses' = responses
       /\ \A j \in 1..N :
              responses'[j] # responses[j] =>
                  j = current + 1 /\ current' = current]_vars

\* C4 witness: word 1 was marked known, then the session went back to word
\* 0, and the mark is still there.
C4_Witness ==
    /\ phase = "Browsing"
    /\ N >= 2
    /\ current = 0
    /\ responses[1] = "None"
    /\ responses[2] = "True"

\* C5: within one polling cycle the poll callback pauses at most once; it
\* has paused exactly when a poll has read a position >= stop_ms (so it
\* pauses at the first such poll and at no poll that read less), and the
\* pause stops the polling.
C5_PauseOnceAtThreshold ==
    /\ pollLog.pauses <= 1
    /\ (pollLog.seen = "reached") <=> (pollLog.pauses = 1)
    /\ pollLog.pauses = 1 => timer = 0 /\ playbackState = "Paused"
    /\ pollLog.seen = "below" => timer > 0

\* C5 witness: the clip of word 1 has been paused by a poll, with the
\* position past the threshold and the polling stopped.
C5_Witness ==
    /\ phase = "Browsing"
    /\ current = 1
    /\ pollLog = [seen |-> "reached", pauses |-> 1]
    /\ playbackState = "Paused"
    /\ timer = 0
    /\ position > stop_ms

\* C6: at most one polling cycle runs at any time, the stored threshold is
\* always the stop of the word that is current, and a clip a poll has
\* paused is at or past the stop of the current word.
C6_OneCycleCurrentThreshold ==
    /\ timer <= 1
    /\ stop_ms = end_ms(words[current + 1])
    /\ pollLog.pauses > 0 => position >= end_ms(words[current + 1])

\* C6 witness: after navigation to a later word and back, one cycle runs
\* and a poll has compared against the current word's threshold.
C6_Witness ==
    /\ N >= 2
    /\ current = 0
    /\ responses[2] # "None"
    /\ timer = 1
    /\ pollLog.seen = "below"
    /\ position < end_ms(words[1])

\* The spec's parseTimestamp of an HH:MM:SS,mmm string, read by position.
ParseHHMMSSmmm(ts) ==
    LET D(i) == DigitVal(ts[i]) IN
    (((D(1) * 10 + D(2)) * 3600 + (D(4) * 10 + D(5)) * 60
      + (D(7) * 10 + D(8))) * 1000)
    + (D(10) * 100 + D(11) * 10 + D(12))

WindowStart(w) == Max(0, ParseHHMMSSmmm(w.beginTimestamp) - 1000)

WindowStop(w) == ParseHHMMSSmmm(w.endTimestamp) + 1000

\* C7: on every entry to a word (at construction and at every change of the
\* current index) the player is positioned at max(0, parse(begin) - 1000)
\* and the threshold is parse(end) + 1000; the position is never negative;
\* begin 00:00:05,000 / end 00:00:06,000 gives stop 7000, unclamped by the
\* video's length.
C7_PlaybackWindow ==
    /\ position = WindowStart(words[1])
    /\ stop_ms = WindowStop(words[1])
    /\ [][current' # current =>
              /\ position' = WindowStart(words[current' + 1])
              /\ stop_ms' = WindowStop(words[current' + 1])]_vars
    /\ [](position >= 0)
    /\ [](words[current + 1].term = "cat" => stop_ms = 7000)

\* C7 witness: the session has just moved to "dog", which begins 500 ms
\* into the video: the start is clamped to 0 and the stop is 3000.
C7_Witness ==
    /\ current > 0
    /\ words[current + 1].term = "dog"
    /\ pollLog = NoPoll
    /\ playbackState = "Playing"
    /\ position = 0
    /\ stop_ms = 3000

\* C8: prev() at index 0 leaves the current index, the responses, the
\* player, the threshold and the timer as they are; at an index i > 0 it
\* moves to i - 1 and enters that word (its clip is started from its window
\* start with its threshold and a fresh polling cycle).
C8_PrevWord ==
    [][prev_word =>
          IF current = 0
          THEN UNCHANGED <<current, responses, position, playbackState,
                           stop_ms, timer, pollLog, phase, outFile, exports>>
          ELSE /\ current' = current - 1
               /\ responses' = responses
               /\ position' = WindowStart(words[current])
               /\ stop_ms' = WindowStop(words[current])
               /\ playbackState' = "Playing"
               /\ timer' = 1]_vars

\* C8 witness: the session went on to word 1, marked it and has just come
\* back to word 0 by prev().
C8_Witness ==
    /\ phase = "Browsing"
    /\ N >= 2
    /\ current = 0
    /\ responses[2] = "False"
    /\ pollLog = NoPoll
    /\ playbackState = "Playing"
    /\ position = WindowStart(words[1])

\* What a mark step may change: the response at the current index becomes
\* v, everything else stays.
MarkEffect(v) ==
    /\ responses'[current + 1] = v
    /\ \A j \in 1..N : j # current + 1 => responses'[j] = responses[j]
    /\ UNCHANGED <<current, position, playbackState, stop_ms, timer, pollLog,
                   phase, outFile, exports>>

\* C9: a mark sets the response at the current index to known/unknown and
\* changes nothing else; the result does not depend on an earlier mark
\* (mark x then mark y equals mark y, mark x twice equals mark x once); a
\* response changes only by a mark at the current index, so a word never
\* marked stays unset.
C9_Mark ==
    /\ [][/\ mark_known => MarkEffect("True")
          /\ mark_unknown => MarkEffect("False")
          /\ \A j \in 1..N :
                 responses'[j] # responses[j] =>
                     /\ j = current + 1
                     /\ mark_known \/ mark_unknown]_vars
    /\ [](\A x, y \in {"True", "False"} :
             /\ mark(responses, current, x)[current + 1] = x
             /\ mark(mark(responses, current, x), current, y)
                    = mark(responses, current, y))

\* C9 witness: in a three-word session the middle word is current and
\* marked unknown, the other two are unset.
C9_Witness ==
    /\ phase = "Browsing"
    /\ N = 3
    /\ current = 1
    /\ responses = <<"None", "False", "None">>

\* C10: the session starts at index 0 with all responses unset; the index
\* stays in [0, N) and the responses stay an array of length N over
\* None/True/False; next() at i < N-1 moves to i+1 and exports nothing; an
\* export (and the move to Finished) happens only by next() at i = N-1.
C10_IndexAndNext ==
    /\ N >= 1 /\ current = 0 /\ phase = "Browsing" /\ exports = 0
    /\ responses = [i \in 1..N |-> "None"]
    /\ [](/\ current \in 0..(N - 1)
          /\ responses \in [1..N -> {"None", "True", "False"}])
    /\ [][/\ (next_word /\ current < N - 1) =>
                 /\ current' = current + 1
                 /\ UNCHANGED <<exports, outFile, phase>>
          /\ (exports' # exports \/ (~Finished /\ Finished')) =>
                 /\ next_word
                 /\ current = N - 1
                 /\ current' = current
                 /\ exports' = exports + 1
                 /\ phase' = "MessageBox"
          /\ current' > current => current' = current + 1]_vars

\* C10 witness: a three-word session has been stepped to its last index and
\* next() there has exported and finished it.
C10_Witness ==
    /\ N = 3
    /\ current = 2
    /\ phase = "MessageBox"
    /\ exports = 1
    /\ lastError = "none"

\* C11: a failed write at the last index surfaces the error (the OSError
\* leaves the slot) and leaves the current index, the responses, the output
\* file and the session's phase as they were: the session is not closed.
\* Nothing is retried: a write happens only in a next_word step.
C11_FailedExportKeepsSession ==
    [][/\ (lastError = "none" /\ lastError' = "OSError") =>
             /\ current = N - 1
             /\ phase' = phase
             /\ UNCHANGED <<words, current, responses, outFile, exports>>
       /\ (lastError = "OSError" /\ exports' # exports) => next_word]_vars

\* C11 witness: the write failed at the last index of a session whose last
\* word is marked known; the session is still browsing there, nothing has
\* been written.
C11_Witness ==
    /\ lastError = "OSError"
    /\ phase = "Browsing"
    /\ exports = 0
    /\ outFile = {}
    /\ current = N - 1
    /\ responses[N] = "True"

\* C15: every entry into a word (construction, prev(), next()) positions
\* the player at the word's window start, starts playback, stores the
\* word's window stop as threshold and starts a fresh polling cycle, also
\* when the previous clip was paused and its polling stopped; so while
\* browsing the threshold is the window stop of the current word.
C15_EntryStartsClip ==
    /\ position = WindowStart(words[1]) /\ playbackState = "Playing"
    /\ stop_ms = WindowStop(words[1]) /\ timer = 1 /\ pollLog = NoPoll
    /\ [][current' # current =>
              /\ position' = WindowStart(words[current' + 1])
              /\ playbackState' = "Playing"
              /\ stop_ms' = WindowStop(words[current' + 1])
              /\ timer' = 1
              /\ pollLog' = NoPoll]_vars
    /\ [](phase = "Browsing" => stop_ms = WindowStop(words[current + 1]))

\* C15 witness: the session has just entered its last word, the clip plays
\* from the window start and polling runs with no poll made yet.
C15_Witness ==
    /\ phase = "Browsing"
    /\ N = 3
    /\ current = 2
    /\ responses[2] = "True"
    /\ position = WindowStart(words[3])
    /\ playbackState = "Playing"
    /\ timer = 1
    /\ pollLog = NoPoll

\* C18: once the session is Finished no polling cycle is active (the timer
\* runs only while browsing).
C18_NoPollingWhenFinished == Finished => timer = 0

\* C16: after the entry into a word, with the timer firing and playback
\* advancing, the clip is eventually paused with the polling stopped unless
\* the user navigates away, also when the stop lies past the end of the
\* video.
C16_EventuallyPaused ==
    \A i \in 0..(MaxWords - 1) :
        (phase = "Browsing" /\ current = i /\ timer > 0)
            ~> ((timer = 0 /\ playbackState = "Paused") \/ current # i)

\* C16 as amended: once the position has reached the threshold, the clip is
\* eventually paused with the polling stopped, unless the user navigates
\* away or the engine takes the position back below the threshold first;
\* and while the threshold lies past the end of the video no poll pauses
\* and the polling goes on.
C16_PausedOnceReached ==
    /\ \A i \in 0..(MaxWords - 1) :
           (current = i /\ timer > 0 /\ position >= stop_ms)
               ~> \/ timer = 0 /\ playbackState = "Paused"
                  \/ current # i
                  \/ position < stop_ms
    /\ [](stop_ms > DurationMs => timer > 0 /\ pollLog.pauses = 0)

\* C16 witness: "owl", whose window is reached at once, has been paused by
\* a poll at the first index and its polling has stopped.
C16_Witness ==
    /\ phase = "Browsing"
    /\ current = 0
    /\ words[1].term = "owl"
    /\ position >= stop_ms
    /\ timer = 0
    /\ playbackState = "Paused"

\* C13: for every string of the shape HH:MM:SS,mmm (two-digit hours,
\* minutes, seconds, three-digit milliseconds), formatting the parsed value
\* gives the string back.
C13_FormatParseRoundTrip ==
    (conv.stage = "ts_ms_ts" /\ conv.ts \in TsInputs) => conv.back = conv.ts

\* Minutes and seconds below 60, read from their places in the string.
InRangeFields(ts) ==
    /\ DigitVal(ts[4]) * 10 + DigitVal(ts[5]) < 60
    /\ DigitVal(ts[7]) * 10 + DigitVal(ts[8]) < 60

\* C13 as amended: the round trip gives the string back for every string of
\* that shape whose minutes and seconds are below 60.
C13_CanonicalRoundTrip ==
    (conv.stage = "ts_ms_ts" /\ conv.ts \in TsInputs /\ InRangeFields(conv.ts))
        => conv.back = conv.ts

\* C13 witness: 99:59:59,999 has been parsed and formatted back to itself.
C13_Witness ==
    /\ conv.stage = "ts_ms_ts"
    /\ conv.ts = <<"9","9",":","5","9",":","5","9",",","9","9","9">>
    /\ conv.ms = 359999999
    /\ conv.back = conv.ts

\* C14: for every non-negative x, 100 hours and more included, parsing the
\* formatted value gives x back.
C14_ParseFormatRoundTrip ==
    conv.stage = "ms_ts_ms" => conv.back = conv.ms

\* C14 witness: 100:59:59,007 (three hour digits) has been formatted and
\* parsed back to the same count.
C14_Witness ==
    /\ conv.stage = "ms_ts_ms"
    /\ conv.ms = 363599007
    /\ conv.ts = <<"1","0","0",":","5","9",":","5","9",",","0","0","7">>
    /\ conv.back = conv.ms

\* The file is not valid JSON, or one of its records lacks a Word field.
BadFile(file) ==
    \/ file.kind = "not_json"
    \/ /\ file.kind = "json"
       /\ \E i \in 1..Len(file.data) : ~(WordFields \subseteq DOMAIN file.data[i])

\* C12: a start whose file is not valid JSON or has a record without a
\* required field ends in the blocking "JSON Error" box: no session is
\* created (no words, no clip, no timer) and the upload window stays the
\* active state; and while the upload window is active there is no session.
C12_FailedLoadStartsNothing ==
    /\ [][\A inp \in StartInputs :
              (start(inp) /\ inp.video /\ inp.srt /\ inp.json
                 /\ BadFile(inp.file)) =>
                  /\ phase' = "Upload"
                  /\ lastError' = "JSON Error"
                  /\ words' = << >>
                  /\ timer' = 0
                  /\ playbackState' = "Stopped"]_vars
    /\ [](phase = "Upload" =>
             words = << >> /\ timer = 0 /\ playbackState = "Stopped")

\* C12 witness: a load has failed; the upload window is active with the
\* error shown and no session exists.
C12_Witness ==
    /\ phase = "Upload"
    /\ lastError = "JSON Error"
    /\ words = << >>
    /\ timer = 0

\* C17: a start with a zero-word file is rejected with an error box at load
\* time: the upload window stays active, no session is started, and no
\* word is ever browsed in a session without words.
C17_ZeroWordsRejected ==
    /\ [][\A inp \in StartInputs :
              (start(inp) /\ inp.video /\ inp.srt /\ inp.json
                 /\ inp.file.kind = "json" /\ Len(inp.file.data) = 0) =>
                  /\ phase' = "Upload"
                  /\ lastError' \in {"Input", "JSON Error"}]_vars
    /\ [](phase = "Browsing" => Len(words) >= 1)
====
